---- MODULE Spec2Model ----
(***************************************************************************)
(* Model of the speakflow content planner: the article store behind the   *)
(* express API (src/server.js) and the planning view (src/public/app.js). *)
(***************************************************************************)
EXTENDS Integers, Sequences, FiniteSets, TLC

(* ------------------------------------------------------------------ *)
(* Bounds                                                              *)
(* ------------------------------------------------------------------ *)

\* Number of write requests (CURRENT_TIMESTAMP ticks) the store accepts in a run.
MaxClock == 3

(* ------------------------------------------------------------------ *)
(* Values                                                              *)
(* ------------------------------------------------------------------ *)

\* SQL NULL / JavaScript undefined for text values.
NULL == "<null>"

\* SQL NULL / JavaScript undefined for integer values (week, word_count).
NullInt == -1

\* The characters of the text values used in the runs.
Chars(s) ==
  CASE s = ""     -> << >>
    [] s = "Wi"   -> <<"W", "i">>
    [] s = "Ga"   -> <<"G", "a">>
    [] s = "wx"   -> <<"w", "x">>
    [] s = "aW"   -> <<"a", "W">>
    [] s = "wI"   -> <<"w", "I">>
    [] s = "wi"   -> <<"w", "i">>
    [] s = "A1"   -> <<"A", "1">>
    [] s = "A2"   -> <<"A", "2">>
    [] s = "A0000000003" -> <<"A", "0", "0", "0", "0", "0", "0", "0", "0", "0", "3">>
    [] OTHER      -> <<"?">>

\* Collation rank of the article_id values used in the runs.
AidRank(a) ==
  CASE a = "A0000000003" -> 1
    [] a = "A1" -> 2
    [] a = "A2" -> 3
    [] OTHER    -> 0

\* JavaScript truthiness of a text value: undefined, null and '' are falsy.
Truthy(v) == v # NULL /\ v # ""

\* SQL COALESCE(a, b).
Coalesce(a, b) == IF a = NULL THEN b ELSE a

CoalesceInt(a, b) == IF a = NullInt THEN b ELSE a

(* ------------------------------------------------------------------ *)
(* State                                                               *)
(* ------------------------------------------------------------------ *)

VARIABLES
  pool,       \* TRUE iff DATABASE_URL is set and a Pool was created
  dbReady,    \* the dbReady flag
  initPc,     \* position of app.listen / initDB
  rows,       \* table sf_articles, in physical (insertion) order
  nextId,     \* next value of the SERIAL sequence of sf_articles.id
  clock,      \* CURRENT_TIMESTAMP
  resp,       \* the last HTTP response sent by the server
  articles,          \* app.js: articles (allRecords)
  filteredArticles,  \* app.js: filteredArticles (visibleRecords)
  filters,           \* values of the five filter inputs
  viewMode,          \* value of the view-mode select
  content,           \* innerHTML of the content area
  staticDefined,     \* typeof staticArticles !== 'undefined'
  task,              \* the running async functions of the view and their fetches
  events,            \* number of user events so far
  seeds,             \* history: number of seed requests issued in the session
  firstList          \* history: outcome of the first load's list fetch

storeVars == <<pool, dbReady, initPc, rows, nextId, clock, resp>>

viewVars == <<articles, filteredArticles, filters, viewMode, content,
              staticDefined, task, events, seeds, firstList>>

vars == <<pool, dbReady, initPc, rows, nextId, clock, resp,
          articles, filteredArticles, filters, viewMode, content,
          staticDefined, task, events, seeds, firstList>>

\* Mutant of Ready: the guard tests the pool only.
Ready_PoolOnly == pool

Ready == pool /\ dbReady

NoRow == [id |-> 0]

(* ------------------------------------------------------------------ *)
(* Table sf_articles and its statements                                *)
(* ------------------------------------------------------------------ *)

\* Mutant of IndexOfAid: article_id has no UNIQUE index, no insert conflicts.
IndexOfAid_NoUnique(rws, aid) == 0

\* Index in rws of the row whose article_id is aid, or 0 (the UNIQUE index).
IndexOfAid(rws, aid) ==
  IF \E i \in 1..Len(rws) : rws[i].article_id = aid
  THEN CHOOSE i \in 1..Len(rws) : rws[i].article_id = aid
  ELSE 0

\* Index in rws of the row whose id is id, or 0 (the PRIMARY KEY index).
IndexOfId(rws, id) ==
  IF \E i \in 1..Len(rws) : rws[i].id = id
  THEN CHOOSE i \in 1..Len(rws) : rws[i].id = id
  ELSE 0

\* Column constraints of sf_articles that a written tuple can violate:
\* article_id VARCHAR(10) NOT NULL, title TEXT NOT NULL.
ViolatesConstraint(ex) ==
  \/ ex.article_id = NULL
  \/ Len(Chars(ex.article_id)) > 10
  \/ ex.title = NULL

\* The tuple INSERT proposes; id comes from the sequence, the timestamps
\* from their DEFAULT CURRENT_TIMESTAMP.
InsertedRow(seq, now, ex) ==
  [id |-> seq, article_id |-> ex.article_id, title |-> ex.title,
   keyword |-> ex.keyword, intent |-> ex.intent, funnel |-> ex.funnel,
   description |-> ex.description, priority |-> ex.priority,
   word_count |-> ex.word_count, category |-> ex.category, week |-> ex.week,
   status |-> ex.status, notes |-> ex.notes,
   created_at |-> now, updated_at |-> now]

\* ON CONFLICT (article_id) DO UPDATE SET ... of POST /api/articles.
UpsertConflictSet(old, ex, now) ==
  [old EXCEPT !.title = ex.title, !.keyword = ex.keyword, !.intent = ex.intent,
              !.funnel = ex.funnel, !.description = ex.description,
              !.priority = ex.priority, !.word_count = ex.word_count,
              !.category = ex.category, !.week = ex.week,
              !.status = Coalesce(ex.status, old.status),
              !.notes = Coalesce(ex.notes, old.notes),
              !.updated_at = now]

\* ON CONFLICT (article_id) DO UPDATE SET ... of POST /api/articles/bulk.
BulkConflictSet(old, ex, now) ==
  [old EXCEPT !.title = ex.title, !.keyword = ex.keyword, !.intent = ex.intent,
              !.funnel = ex.funnel, !.description = ex.description,
              !.priority = ex.priority, !.word_count = ex.word_count,
              !.category = ex.category, !.week = ex.week,
              !.updated_at = now]

\* One INSERT ... ON CONFLICT statement on table rws. nextval is taken for
\* the proposed tuple whether or not the statement then fails or conflicts.
\* bulk selects the conflict clause of the bulk endpoint.
InsertOnConflict(rws, seq, now, ex, bulk) ==
  LET i == IndexOfAid(rws, ex.article_id)
  IN  IF ViolatesConstraint(ex)
      THEN [ok |-> FALSE, rows |-> rws, seq |-> seq + 1, row |-> NoRow]
      ELSE IF i = 0
      THEN [ok |-> TRUE, rows |-> Append(rws, InsertedRow(seq, now, ex)),
            seq |-> seq + 1, row |-> InsertedRow(seq, now, ex)]
      ELSE LET merged == IF bulk THEN BulkConflictSet(rws[i], ex, now)
                                 ELSE UpsertConflictSet(rws[i], ex, now)
           IN  [ok |-> TRUE, rows |-> [rws EXCEPT ![i] = merged],
                seq |-> seq + 1, row |-> merged]

\* Mutant of PatchSet: notes = $2 without COALESCE.
PatchSet_NotesOverwritten(old, status, notes, week, now) ==
  [old EXCEPT !.status = Coalesce(status, old.status),
              !.notes = notes,
              !.week = CoalesceInt(week, old.week),
              !.updated_at = now]

\* UPDATE sf_articles SET status = COALESCE($1, status), ... WHERE id = $4.
PatchSet(old, status, notes, week, now) ==
  [old EXCEPT !.status = Coalesce(status, old.status),
              !.notes = Coalesce(notes, old.notes),
              !.week = CoalesceInt(week, old.week),
              !.updated_at = now]

\* DELETE FROM sf_articles WHERE id = $1.
DeleteWhereId(rws, id) == SelectSeq(rws, LAMBDA r : r.id # id)

\* ORDER BY week, article_id: ascending, NULL weeks last.
RowLessEq(a, b) ==
  IF a.week # b.week
  THEN b.week = NullInt \/ (a.week # NullInt /\ a.week < b.week)
  ELSE AidRank(a.article_id) <= AidRank(b.article_id)

RECURSIVE InsertOrdered(_, _)
InsertOrdered(r, s) ==
  IF s = << >> THEN <<r>>
  ELSE IF RowLessEq(r, Head(s)) THEN <<r>> \o s
  ELSE <<Head(s)>> \o InsertOrdered(r, Tail(s))

RECURSIVE OrderBy(_)
OrderBy(rws) ==
  IF rws = << >> THEN << >> ELSE InsertOrdered(Head(rws), OrderBy(Tail(rws)))

\* Mutant of SelectAll: the query has no ORDER BY.
SelectAll_Unordered(rws) == rws

\* SELECT * FROM sf_articles ORDER BY week, article_id.
SelectAll(rws) == OrderBy(rws)

\* COUNT(*) FILTER (WHERE ...).
CountWhere(rws, col, val) ==
  Cardinality({i \in 1 .. Len(rws) : rws[i][col] = val})

(* ------------------------------------------------------------------ *)
(* Request handlers: each yields the store after the request and the   *)
(* response sent                                                       *)
(* ------------------------------------------------------------------ *)

Reply(op, code, body) == [op |-> op, code |-> code, body |-> body]

\* A handler outcome that touches neither the table nor the clock.
ReadOnly(r) == [rows |-> rows, seq |-> nextId, clock |-> clock, resp |-> r]

Unavailable(op) == ReadOnly(Reply(op, 503, [error |-> "Database not available"]))

\* GET /api/articles. fail: the query rejects.
ListArticles(fail) ==
  IF ~Ready THEN ReadOnly(Reply("list", 200, << >>))
  ELSE IF fail THEN ReadOnly(Reply("list", 500, [error |-> "query failed"]))
  ELSE ReadOnly(Reply("list", 200, SelectAll(rows)))

\* GET /api/articles/:id.
GetArticle(id) ==
  IF ~Ready THEN Unavailable("get")
  ELSE IF IndexOfId(rows, id) = 0
  THEN ReadOnly(Reply("get", 404, [error |-> "Article not found"]))
  ELSE ReadOnly(Reply("get", 200, rows[IndexOfId(rows, id)]))

\* The parameters $1..$12 of POST /api/articles.
UpsertParams(body) ==
  [article_id |-> body.article_id, title |-> body.title, keyword |-> body.keyword,
   intent |-> body.intent, funnel |-> body.funnel, description |-> body.description,
   priority |-> body.priority, word_count |-> body.word_count,
   category |-> body.category, week |-> body.week,
   status |-> IF Truthy(body.status) THEN body.status ELSE "planned",
   notes |-> body.notes]

\* POST /api/articles.
PostArticle(body) ==
  IF ~Ready THEN Unavailable("upsert")
  ELSE LET q == InsertOnConflict(rows, nextId, clock, UpsertParams(body), FALSE)
       IN  [rows |-> q.rows, seq |-> q.seq, clock |-> clock + 1,
            resp |-> IF q.ok THEN Reply("upsert", 200, q.row)
                     ELSE Reply("upsert", 500, [error |-> "constraint"])]

\* PATCH /api/articles/:id.
PatchArticle(id, body) ==
  IF ~Ready THEN Unavailable("patch")
  ELSE LET i == IndexOfId(rows, id)
           new == PatchSet(rows[i], body.status, body.notes, body.week, clock)
       IN  IF i = 0
           THEN [rows |-> rows, seq |-> nextId, clock |-> clock + 1,
                 resp |-> Reply("patch", 404, [error |-> "Article not found"])]
           ELSE [rows |-> [rows EXCEPT ![i] = new], seq |-> nextId,
                 clock |-> clock + 1, resp |-> Reply("patch", 200, new)]

\* DELETE /api/articles/:id.
DeleteArticle(id) ==
  IF ~Ready THEN Unavailable("delete")
  ELSE [rows |-> DeleteWhereId(rows, id), seq |-> nextId, clock |-> clock + 1,
        resp |-> Reply("delete", 200, [success |-> TRUE])]

\* The parameters $1..$10 of the bulk INSERT; status and notes are not
\* written, so an inserted tuple takes DEFAULT 'planned' and NULL.
BulkParams(article) ==
  [article_id |-> article.id, title |-> article.title, keyword |-> article.keyword,
   intent |-> article.intent, funnel |-> article.funnel,
   description |-> article.description, priority |-> article.priority,
   word_count |-> article.wordCount, category |-> article.category,
   week |-> article.week, status |-> "planned", notes |-> NULL]

\* The for loop of the bulk endpoint from article i on, inside the
\* transaction: it stops at the first statement that throws.
RECURSIVE RunBatch(_, _, _, _, _)
RunBatch(rws, seq, now, arts, i) ==
  IF i > Len(arts) THEN [ok |-> TRUE, rows |-> rws, seq |-> seq]
  ELSE LET q == InsertOnConflict(rws, seq, now, BulkParams(arts[i]), TRUE)
       IN  IF q.ok THEN RunBatch(q.rows, q.seq, now, arts, i + 1)
           ELSE [ok |-> FALSE, rows |-> q.rows, seq |-> q.seq]

\* Mutant of EndTransaction: the statements are not in a transaction.
EndTransaction_NoRollback(before, tx) == tx.rows

\* The table after COMMIT (tx.ok) or ROLLBACK: before is the table at BEGIN.
EndTransaction(before, tx) == IF tx.ok THEN tx.rows ELSE before

\* POST /api/articles/bulk. A body without articles makes the for loop throw.
PostBulk(body) ==
  IF ~Ready THEN Unavailable("bulk")
  ELSE LET tx == IF "articles" \in DOMAIN body
                 THEN RunBatch(rows, nextId, clock, body.articles, 1)
                 ELSE [ok |-> FALSE, rows |-> rows, seq |-> nextId]
       IN  [rows |-> EndTransaction(rows, tx), seq |-> tx.seq, clock |-> clock + 1,
            resp |-> IF tx.ok
                     THEN Reply("bulk", 200, [success |-> TRUE, count |-> Len(body.articles)])
                     ELSE Reply("bulk", 500, [error |-> "bulk failed"])]

\* GET /api/stats. fail: the query rejects.
GetStats(fail) ==
  IF ~Ready
  THEN ReadOnly(Reply("stats", 200,
         [total |-> 0, high_priority |-> 0, medium_priority |-> 0, low_priority |-> 0]))
  ELSE IF fail THEN ReadOnly(Reply("stats", 500, [error |-> "query failed"]))
  ELSE ReadOnly(Reply("stats", 200,
         [total |-> Len(rows),
          high_priority |-> CountWhere(rows, "priority", "High"),
          medium_priority |-> CountWhere(rows, "priority", "Medium"),
          low_priority |-> CountWhere(rows, "priority", "Low"),
          planned |-> CountWhere(rows, "status", "planned"),
          in_progress |-> CountWhere(rows, "status", "in_progress"),
          written |-> CountWhere(rows, "status", "written"),
          published |-> CountWhere(rows, "status", "published")]))

(* ------------------------------------------------------------------ *)
(* Request inputs                                                      *)
(* ------------------------------------------------------------------ *)

ArticleIds == {"A1", "A2"}

Weeks == {1, 2}

\* A POST /api/articles body; v picks one of two sets of descriptive fields.
Body(aid, v, week, status, notes) ==
  [article_id |-> aid,
   title |-> IF v = 1 THEN "Wi" ELSE "Ga",
   keyword |-> IF v = 1 THEN "wx" ELSE NULL,
   intent |-> IF v = 1 THEN "Informational" ELSE "Commercial",
   funnel |-> IF v = 1 THEN "TOFU" ELSE "BOFU",
   description |-> IF v = 1 THEN NULL ELSE "aW",
   priority |-> IF v = 1 THEN "High" ELSE "Low",
   word_count |-> IF v = 1 THEN 1500 ELSE NullInt,
   category |-> IF v = 1 THEN "A" ELSE "B",
   week |-> week, status |-> status, notes |-> notes]

UpsertBodies ==
  { Body(a, 1, w, NULL, NULL) : a \in ArticleIds, w \in Weeks }
  \cup { Body(a, 2, w, "written", "n1") : a \in ArticleIds, w \in Weeks }
  \cup { Body("A2", 1, NullInt, NULL, NULL),
         [Body("A1", 2, 1, "published", NULL) EXCEPT !.title = NULL] }

PatchBodies ==
  { [status |-> "in_progress", notes |-> NULL, week |-> NullInt],
    [status |-> NULL, notes |-> "n2", week |-> NullInt],
    [status |-> NULL, notes |-> NULL, week |-> 1],
    [status |-> "published", notes |-> NULL, week |-> 2],
    [status |-> NULL, notes |-> NULL, week |-> NullInt] }

\* An entry of a bulk body, in the shape of the static dataset.
Article(aid, v, week) ==
  LET b == Body(aid, v, week, NULL, NULL)
  IN  [id |-> aid, title |-> b.title, keyword |-> b.keyword, intent |-> b.intent,
       funnel |-> b.funnel, description |-> b.description, priority |-> b.priority,
       wordCount |-> b.word_count, category |-> b.category, week |-> week]

\* The fallback dataset staticArticles.
staticArticles == <<Article("A1", 1, 2), Article("A2", 2, 1)>>

BulkBodies ==
  { [articles |-> staticArticles],
    [articles |-> <<Article("A2", 1, 1), [Article("A1", 2, 1) EXCEPT !.title = NULL]>>],
    [articles |-> <<Article("A1", 2, 2), Article("A0000000003", 1, 1)>>],
    [articles |-> <<Article("A2", 1, 2), Article("A2", 2, 2)>>],
    [articles |-> << >>],
    [other |-> NULL] }

\* Values of :id in the requests.
Ids == 1 .. MaxClock

\* Tables a database can hold when the process starts.
PriorTables ==
  { << >>,
    <<InsertedRow(1, 0, UpsertParams(Body("A1", 1, 2, "in_progress", NULL)))>> }

(* ------------------------------------------------------------------ *)
(* Server actions                                                      *)
(* ------------------------------------------------------------------ *)

Apply(out) ==
  /\ rows' = out.rows
  /\ nextId' = out.seq
  /\ clock' = out.clock
  /\ resp' = out.resp

Listening == initPc # "boot"

\* A write request is taken while the clock has ticks left (or is refused).
CanWrite == ~Ready \/ clock <= MaxClock

InitServer ==
  /\ pool \in BOOLEAN
  /\ dbReady = FALSE
  /\ initPc = "boot"
  /\ rows \in (IF pool THEN PriorTables ELSE {<< >>})
  /\ nextId = Len(rows) + 1
  /\ clock = 1
  /\ resp = Reply("none", 0, NULL)

\* app.listen callback: initDB starts; without a pool it returns at once.
Listen ==
  /\ initPc = "boot"
  /\ initPc' = IF pool THEN "connecting" ELSE "skipped"
  /\ UNCHANGED <<pool, dbReady, rows, nextId, clock, resp>>
  /\ UNCHANGED viewVars

\* initDB: connect and CREATE TABLE IF NOT EXISTS succeed.
InitDBOk ==
  /\ initPc = "connecting"
  /\ initPc' = "ready"
  /\ dbReady' = TRUE
  /\ UNCHANGED <<pool, rows, nextId, clock, resp>>
  /\ UNCHANGED viewVars

\* initDB: connect or the query throws; the catch only logs.
InitDBFail ==
  /\ initPc = "connecting"
  /\ initPc' = "failed"
  /\ UNCHANGED <<pool, dbReady, rows, nextId, clock, resp>>
  /\ UNCHANGED viewVars

\* One request of each endpoint, as the handler runs it.
ListStep(fail) ==
  /\ Listening
  /\ Apply(ListArticles(fail))
  /\ UNCHANGED <<pool, dbReady, initPc>>

GetStep(id) ==
  /\ Listening
  /\ Apply(GetArticle(id))
  /\ UNCHANGED <<pool, dbReady, initPc>>

UpsertStep(body) ==
  /\ Listening /\ CanWrite
  /\ Apply(PostArticle(body))
  /\ UNCHANGED <<pool, dbReady, initPc>>

PatchStep(id, body) ==
  /\ Listening /\ CanWrite
  /\ Apply(PatchArticle(id, body))
  /\ UNCHANGED <<pool, dbReady, initPc>>

DeleteStep(id) ==
  /\ Listening /\ CanWrite
  /\ Apply(DeleteArticle(id))
  /\ UNCHANGED <<pool, dbReady, initPc>>

BulkStep(body) ==
  /\ Listening /\ CanWrite
  /\ Apply(PostBulk(body))
  /\ UNCHANGED <<pool, dbReady, initPc>>

StatsStep(fail) ==
  /\ Listening
  /\ Apply(GetStats(fail))
  /\ UNCHANGED <<pool, dbReady, initPc>>

\* Requests of API clients.
List ==
  /\ \E fail \in BOOLEAN : ListStep(fail)
  /\ UNCHANGED viewVars

Get ==
  /\ \E id \in Ids : GetStep(id)
  /\ UNCHANGED viewVars

Upsert ==
  /\ \E body \in UpsertBodies : UpsertStep(body)
  /\ UNCHANGED viewVars

Patch ==
  /\ \E id \in Ids, body \in PatchBodies : PatchStep(id, body)
  /\ UNCHANGED viewVars

Delete ==
  /\ \E id \in Ids : DeleteStep(id)
  /\ UNCHANGED viewVars

BulkUpsert ==
  /\ \E body \in BulkBodies : BulkStep(body)
  /\ UNCHANGED viewVars

Stats ==
  /\ \E fail \in BOOLEAN : StatsStep(fail)
  /\ UNCHANGED viewVars

(* ------------------------------------------------------------------ *)
(* Planning view: values                                               *)
(* ------------------------------------------------------------------ *)

\* The value response.json() yields for GET /api/articles: the array of a
\* 200 answer, or the { error } object of a 500 answer (array = FALSE).
JsArray(items) == [array |-> TRUE, items |-> items]

ErrorObject == [array |-> FALSE, items |-> << >>]

ParseList(res) == IF res.code = 200 THEN JsArray(res.body) ELSE ErrorObject

\* article.<f> of a fetched row or of a static article; undefined if absent.
Field(a, f) == IF f \in DOMAIN a THEN a[f] ELSE NULL

\* String.prototype.toLowerCase on one character.
LowerChar(c) ==
  CASE c = "W" -> "w" [] c = "I" -> "i" [] c = "G" -> "g" [] c = "A" -> "a"
    [] OTHER -> c

ToLowerCase(cs) == [i \in 1..Len(cs) |-> LowerChar(cs[i])]

\* String.prototype.includes.
Includes(hay, needle) ==
  \E k \in 0..(Len(hay) - Len(needle)) :
    \A i \in 1..Len(needle) : hay[k + i] = needle[i]

\* Mutant of ArticleMatches: the fields are not lower-cased before includes.
ArticleMatches_CaseSensitive(a, search, f) ==
  /\ \/ search = << >>
     \/ Includes(Chars(a.title), search)
     \/ Truthy(Field(a, "keyword")) /\ Includes(Chars(a.keyword), search)
     \/ Truthy(Field(a, "description")) /\ Includes(Chars(a.description), search)
  /\ ~Truthy(f.category) \/ Field(a, "category") = f.category
  /\ ~Truthy(f.priority) \/ Field(a, "priority") = f.priority
  /\ ~Truthy(f.funnel) \/ Field(a, "funnel") = f.funnel
  /\ ~Truthy(f.status) \/ Field(a, "status") = f.status

\* The callback of articles.filter in applyFilters; search is the
\* lower-cased value of the search input.
ArticleMatches(a, search, f) ==
  LET matchesSearch ==
        \/ search = << >>
        \/ Includes(ToLowerCase(Chars(a.title)), search)
        \/ /\ Truthy(Field(a, "keyword"))
           /\ Includes(ToLowerCase(Chars(a.keyword)), search)
        \/ /\ Truthy(Field(a, "description"))
           /\ Includes(ToLowerCase(Chars(a.description)), search)
      matchesCategory == ~Truthy(f.category) \/ Field(a, "category") = f.category
      matchesPriority == ~Truthy(f.priority) \/ Field(a, "priority") = f.priority
      matchesFunnel == ~Truthy(f.funnel) \/ Field(a, "funnel") = f.funnel
      matchesStatus == ~Truthy(f.status) \/ Field(a, "status") = f.status
  IN  matchesSearch /\ matchesCategory /\ matchesPriority /\ matchesFunnel
        /\ matchesStatus

\* articles.filter(...) of applyFilters.
FilterArticles(items, f) ==
  SelectSeq(items, LAMBDA a : ArticleMatches(a, ToLowerCase(Chars(f.search)), f))

(* ------------------------------------------------------------------ *)
(* Planning view: rendering                                            *)
(* ------------------------------------------------------------------ *)

\* The markup is a sequence of elements; the empty sequence is the empty
\* string.
Placeholder == <<[tag |-> "p", text |-> "No articles match your filters"]>>

\* ${article.article_id || article.id}
DisplayId(a) ==
  IF Truthy(Field(a, "article_id")) THEN a.article_id ELSE a.id

\* ${article.status || 'planned'}
DisplayStatus(a) ==
  IF Truthy(Field(a, "status")) THEN a.status ELSE "planned"

\* The argument ${article.id} of the inline onchange handler: the internal
\* id of a fetched row; for a static article it is a bare identifier, the
\* handler throws and nothing is called (0).
ControlId(a) == IF "article_id" \in DOMAIN a THEN a.id ELSE 0

ListRow(a) ==
  [tag |-> "row", id |-> DisplayId(a), status |-> DisplayStatus(a),
   week |-> a.week, control |-> ControlId(a)]

Card(a) ==
  [tag |-> "card", id |-> DisplayId(a), status |-> DisplayStatus(a),
   week |-> a.week, control |-> 0]

\* recs.map(article => card).join('').
Cards(recs) == [i \in 1..Len(recs) |-> Card(recs[i])]

\* filteredArticles.map(...).join('') of renderListView.
ListHtml(recs) == [i \in 1..Len(recs) |-> ListRow(recs[i])]

\* Object.keys(weeks).sort((a, b) => parseInt(a) - parseInt(b)).
RECURSIVE SortedWeeks(_)
SortedWeeks(ws) ==
  IF ws = {} THEN << >>
  ELSE LET m == CHOOSE w \in ws : \A x \in ws : w <= x
       IN  <<m>> \o SortedWeeks(ws \ {m})

\* Math.ceil(parseInt(week) / 13).
Quarter(week) == (week + 12) \div 13

RECURSIVE WeekGroups(_, _)
WeekGroups(ws, recs) ==
  IF ws = << >> THEN << >>
  ELSE <<[tag |-> "week", week |-> Head(ws), quarter |-> Quarter(Head(ws))]>>
       \o Cards(SelectSeq(recs, LAMBDA a : a.week = Head(ws)))
       \o WeekGroups(Tail(ws), recs)

\* The template of renderCalendarView: the grid element wraps the groups.
CalendarHtml(recs) ==
  <<[tag |-> "grid"]>>
  \o WeekGroups(SortedWeeks({recs[i].week : i \in 1..Len(recs)}), recs)
  \o <<[tag |-> "/grid"]>>

\* Rank of the category names in Array.prototype.sort order.
CategoryRank(c) == CASE c = "A" -> 1 [] c = "B" -> 2 [] OTHER -> 3

\* Object.keys(categories).sort().
RECURSIVE SortedCategories(_)
SortedCategories(cs) ==
  IF cs = {} THEN << >>
  ELSE LET m == CHOOSE c \in cs : \A x \in cs : CategoryRank(c) <= CategoryRank(x)
       IN  <<m>> \o SortedCategories(cs \ {m})

RECURSIVE CategoryGroups(_, _)
CategoryGroups(cs, recs) ==
  IF cs = << >> THEN << >>
  ELSE LET members == SelectSeq(recs, LAMBDA a : a.category = Head(cs))
       IN  <<[tag |-> "category", name |-> Head(cs), count |-> Len(members)]>>
           \o Cards(members)
           \o CategoryGroups(Tail(cs), recs)

\* sortedCategories.map(...).join('') of renderCategoryView.
CategoryHtml(recs) ==
  CategoryGroups(SortedCategories({recs[i].category : i \in 1..Len(recs)}), recs)

\* container.innerHTML = html || placeholder.
OrPlaceholder(html) == IF html = << >> THEN Placeholder ELSE html

renderListView(recs) == OrPlaceholder(ListHtml(recs))

renderCalendarView(recs) == OrPlaceholder(CalendarHtml(recs))

renderCategoryView(recs) == OrPlaceholder(CategoryHtml(recs))

\* render(): the content area for the selected mode.
Render(mode, recs) ==
  CASE mode = "calendar" -> renderCalendarView(recs)
    [] mode = "category" -> renderCategoryView(recs)
    [] OTHER -> renderListView(recs)

(* ------------------------------------------------------------------ *)
(* Planning view: state and actions                                    *)
(* ------------------------------------------------------------------ *)

\* Number of user events (filter input, mode change, status change) in a
\* session.
MaxEvents == 2

\* The DOMContentLoaded handler and two updateArticleStatus calls.
Cycles == {"c1", "c2"}

Tasks == {"boot"} \cup Cycles

\* The fetch a task awaits: none, sent, rejected, or answered.
NoFetch == [st |-> "none"]

Sent == [st |-> "sent"]

Rejected == [st |-> "err"]

Arrived(r) == [st |-> "resp", code |-> r.code, body |-> r.body]

Idle == [pc |-> "idle", net |-> NoFetch, id |-> 0, status |-> "", seeded |-> "none"]

\* The markup of the content area before the first render.
InitialContent == <<[tag |-> "initial"]>>

NoFilters ==
  [search |-> "", category |-> "", priority |-> "", funnel |-> "", status |-> ""]

\* Values a user gives the filter inputs and the status select.
FilterChoices ==
  [search |-> {"", "wI"}, category |-> {"", "B"}, priority |-> {"", "High"},
   funnel |-> {"", "TOFU"}, status |-> {"", "in_progress"}]

StatusChoices == {"in_progress", "published"}

ViewModes == {"list", "calendar", "category"}

InitView ==
  /\ articles = JsArray(<< >>)
  /\ filteredArticles = << >>
  /\ filters = NoFilters
  /\ viewMode = "list"
  /\ content = InitialContent
  /\ task = [t \in Tasks |-> IF t = "boot" THEN [Idle EXCEPT !.pc = "unloaded"] ELSE Idle]
  /\ events = 0
  /\ seeds = 0
  /\ firstList = "none"

\* The catch block of loadArticles; a and fa are articles and
\* filteredArticles when the exception is thrown.
Fallback(a, fa) ==
  IF staticDefined
  THEN [articles |-> JsArray(staticArticles), filtered |-> staticArticles]
  ELSE [articles |-> a, filtered |-> fa]

\* articles = data; filteredArticles = [...articles]: spreading a value that
\* is no array throws, after articles was assigned.
Assign(data) ==
  IF data.array THEN [articles |-> data, filtered |-> data.items]
  ELSE Fallback(data, filteredArticles)

\* Mutant of ShouldSeed: any array answer seeds.
ShouldSeed_AnyArray(data) == data.array

\* data.length === 0.
ShouldSeed(data) == data.array /\ Len(data.items) = 0

\* The code after `await loadArticles()`, load being the outcome of
\* loadArticles. DOMContentLoaded: populateCategoryFilter throws on a value
\* that is no array, else render() and the listeners are attached.
\* updateArticleStatus: applyFilters throws on a value that is no array (the
\* catch logs it), else it filters and renders.
AfterLoad(t, load) ==
  /\ articles' = load.articles
  /\ IF t = "boot"
     THEN /\ filteredArticles' = load.filtered
          /\ content' = IF load.articles.array
                        THEN Render(viewMode, load.filtered) ELSE content
          /\ task' = [task EXCEPT ![t] =
                        [Idle EXCEPT !.pc = IF load.articles.array
                                            THEN "ready" ELSE "crashed",
                                     !.seeded = task[t].seeded]]
     ELSE /\ filteredArticles' = IF load.articles.array
                                 THEN FilterArticles(load.articles.items, filters)
                                 ELSE load.filtered
          /\ content' = IF load.articles.array
                        THEN Render(viewMode,
                                    FilterArticles(load.articles.items, filters))
                        ELSE content
          /\ task' = [task EXCEPT ![t] = [Idle EXCEPT !.seeded = task[t].seeded]]

\* The page is opened: the DOMContentLoaded handler calls loadArticles,
\* which sends the first list fetch.
DOMContentLoaded ==
  /\ Listening
  /\ task["boot"].pc = "unloaded"
  /\ task' = [task EXCEPT !["boot"].pc = "list1", !["boot"].net = Sent]
  /\ UNCHANGED <<articles, filteredArticles, filters, viewMode, content,
                 staticDefined, events, seeds, firstList>>
  /\ UNCHANGED storeVars

\* The server handles the request task t has sent.
Serve(t) ==
  /\ Listening
  /\ task[t].net = Sent
  /\ \E fail \in BOOLEAN :
       LET out == CASE task[t].pc = "patch" ->
                         PatchArticle(task[t].id,
                           [status |-> task[t].status, notes |-> NULL, week |-> NullInt])
                    [] task[t].pc = "seed" -> PostBulk([articles |-> staticArticles])
                    [] OTHER -> ListArticles(fail)
       IN  /\ task[t].pc \in {"patch", "seed"} => (CanWrite /\ ~fail)
           /\ Apply(out)
           /\ task' = [task EXCEPT ![t].net = Arrived(out.resp)]
  /\ UNCHANGED <<pool, dbReady, initPc>>
  /\ UNCHANGED <<articles, filteredArticles, filters, viewMode, content,
                 staticDefined, events, seeds, firstList>>

\* The fetch of task t rejects (the request does not reach the server).
NetFail(t) ==
  /\ task[t].net = Sent
  /\ task' = [task EXCEPT ![t].net = Rejected]
  /\ UNCHANGED <<articles, filteredArticles, filters, viewMode, content,
                 staticDefined, events, seeds, firstList>>
  /\ UNCHANGED storeVars

\* updateArticleStatus after `await fetch(PATCH)`: a rejection ends the call
\* in its catch; any answer, whatever its status, starts loadArticles.
AfterPatch(t) ==
  /\ task[t].pc = "patch"
  /\ task' = [task EXCEPT ![t] =
                IF task[t].net = Rejected THEN Idle
                ELSE [task[t] EXCEPT !.pc = "list1", !.net = Sent, !.seeded = "none"]]
  /\ UNCHANGED <<articles, filteredArticles, filters, viewMode, content,
                 staticDefined, events, seeds, firstList>>

\* loadArticles after the first list fetch.
AfterList1(t) ==
  /\ task[t].pc = "list1"
  /\ firstList' = IF t # "boot" THEN firstList
                  ELSE IF task[t].net = Rejected THEN "rejected"
                  ELSE IF ShouldSeed(ParseList(task[t].net)) THEN "empty"
                  ELSE "nonempty"
  /\ IF task[t].net = Rejected
     THEN AfterLoad(t, Fallback(articles, filteredArticles)) /\ UNCHANGED seeds
     ELSE IF ShouldSeed(ParseList(task[t].net))
     THEN \* seedArticles: without the dataset it returns, else it posts it
          /\ task' = [task EXCEPT ![t].pc = IF staticDefined THEN "seed" ELSE "list2",
                                  ![t].net = Sent]
          /\ seeds' = IF staticDefined THEN seeds + 1 ELSE seeds
          /\ UNCHANGED <<articles, filteredArticles, content>>
     ELSE AfterLoad(t, Assign(ParseList(task[t].net))) /\ UNCHANGED seeds
  /\ UNCHANGED <<filters, viewMode, staticDefined, events>>

\* loadArticles after seedArticles: the answer is not looked at and a
\* rejection is caught; the list is fetched again.
AfterSeed(t) ==
  /\ task[t].pc = "seed"
  /\ task' = [task EXCEPT ![t].pc = "list2", ![t].net = Sent,
                          ![t].seeded = IF task[t].net # Rejected /\ task[t].net.code = 200
                                        THEN "ok" ELSE "failed"]
  /\ UNCHANGED <<articles, filteredArticles, filters, viewMode, content,
                 staticDefined, events, seeds, firstList>>

\* loadArticles after the second list fetch.
AfterList2(t) ==
  /\ task[t].pc = "list2"
  /\ AfterLoad(t, IF task[t].net = Rejected
                  THEN Fallback(articles, filteredArticles)
                  ELSE Assign(ParseList(task[t].net)))
  /\ UNCHANGED <<filters, viewMode, staticDefined, events, seeds, firstList>>

\* The fetch of task t has settled and the function runs to its next await.
Continue(t) ==
  /\ task[t].net.st \in {"resp", "err"}
  /\ \/ AfterPatch(t)
     \/ AfterList1(t)
     \/ AfterSeed(t)
     \/ AfterList2(t)
  /\ UNCHANGED storeVars

Booted == task["boot"].pc = "ready"

\* applyFilters() on the input event of a filter.
applyFilters(field, value) ==
  /\ Booted /\ events < MaxEvents
  /\ value # filters[field]
  /\ filters' = [filters EXCEPT ![field] = value]
  /\ events' = events + 1
  /\ IF articles.array
     THEN /\ filteredArticles' = FilterArticles(articles.items, filters')
          /\ content' = Render(viewMode, filteredArticles')
     ELSE UNCHANGED <<filteredArticles, content>>
  /\ UNCHANGED <<articles, viewMode, staticDefined, task, seeds, firstList>>
  /\ UNCHANGED storeVars

FilterInput == \E field \in DOMAIN FilterChoices :
                 \E value \in FilterChoices[field] : applyFilters(field, value)

\* render() on the change event of the view-mode select.
ModeChange ==
  /\ Booted /\ events < MaxEvents
  /\ \E mode \in ViewModes \ {viewMode} :
       /\ viewMode' = mode
       /\ content' = Render(mode, filteredArticles)
  /\ events' = events + 1
  /\ UNCHANGED <<articles, filteredArticles, filters, staticDefined, task,
                 seeds, firstList>>
  /\ UNCHANGED storeVars

\* updateArticleStatus(id, status) from the select of a rendered list row:
\* the PATCH is sent.
updateArticleStatus(t, id, status) ==
  /\ Booted /\ events < MaxEvents
  /\ task[t] = Idle
  /\ \E i \in 1..Len(content) :
       /\ content[i].tag = "row"
       /\ content[i].control = id /\ id # 0
       /\ content[i].status # status
  /\ task' = [task EXCEPT ![t] =
                [Idle EXCEPT !.pc = "patch", !.net = Sent, !.id = id, !.status = status]]
  /\ events' = events + 1
  /\ UNCHANGED <<articles, filteredArticles, filters, viewMode, content,
                 staticDefined, seeds, firstList>>
  /\ UNCHANGED storeVars

StatusChange ==
  \E t \in Cycles, id \in Ids, status \in StatusChoices :
    updateArticleStatus(t, id, status)

\* Another client deletes a stored record.
OtherClientDelete ==
  /\ \E i \in 1..Len(rows) : DeleteStep(rows[i].id)
  /\ UNCHANGED viewVars

(* ------------------------------------------------------------------ *)
(* Specifications                                                      *)
(* ------------------------------------------------------------------ *)

\* The store under the requests of API clients; no page is open.
InitStore == InitServer /\ InitView /\ staticDefined = TRUE

NextStore ==
  \/ Listen \/ InitDBOk \/ InitDBFail
  \/ List \/ Get \/ Upsert \/ Patch \/ Delete \/ BulkUpsert \/ Stats

SpecStore == InitStore /\ [][NextStore]_vars

\* One page session against the server, and another client that deletes
\* records.
InitPage == InitServer /\ InitView /\ staticDefined \in BOOLEAN

NextView ==
  \/ Listen \/ InitDBOk \/ InitDBFail
  \/ DOMContentLoaded
  \/ \E t \in Tasks : Serve(t)
  \/ \E t \in Tasks : NetFail(t)
  \/ \E t \in Tasks : Continue(t)
  \/ FilterInput \/ ModeChange \/ StatusChange
  \/ OtherClientDelete

SpecView == InitPage /\ [][NextView]_vars

\* The server answers the request task t has sent, no query failing.
Answer(t) == Serve(t) /\ task'[t].net.code # 500

\* One page session in which this page is the only client that writes and
\* every request is answered.
NextEdits ==
  \/ Listen \/ InitDBOk \/ InitDBFail
  \/ DOMContentLoaded
  \/ \E t \in Tasks : Answer(t)
  \/ \E t \in Tasks : Continue(t)
  \/ FilterInput \/ ModeChange \/ StatusChange

SpecEdits == InitPage /\ [][NextEdits]_vars

(* ------------------------------------------------------------------ *)
(* Properties of the record store                                      *)
(* ------------------------------------------------------------------ *)

\* The row of table rws with article_id aid (there is one).
RowOfAid(rws, aid) == rws[IndexOfAid(rws, aid)]

HasAid(rws, aid) == \E i \in 1..Len(rws) : rws[i].article_id = aid

HasId(rws, id) == \E i \in 1..Len(rws) : rws[i].id = id

\* C1: an Upsert on the articleId of a stored record that omits status
\* leaves the stored status as it was, and one that omits notes leaves the
\* stored notes as they were; a supplied (non-null) status or notes replaces
\* the stored one.
C1_UpsertKeepsOmittedStatusNotes ==
  [][\A body \in UpsertBodies :
       (resp'.op = "upsert" /\ UpsertStep(body) /\ pool /\ dbReady /\ HasAid(rows, body.article_id))
       => /\ HasAid(rows', body.article_id)
          /\ body.status = NULL
               => RowOfAid(rows', body.article_id).status
                    = RowOfAid(rows, body.article_id).status
          /\ body.notes = NULL
               => RowOfAid(rows', body.article_id).notes
                    = RowOfAid(rows, body.article_id).notes
          /\ (body.status # NULL /\ resp'.code = 200)
               => RowOfAid(rows', body.article_id).status = body.status
          /\ (body.notes # NULL /\ resp'.code = 200)
               => RowOfAid(rows', body.article_id).notes = body.notes]_vars

\* Some write of the batch violates a constraint of the table.
BatchFails(arts) ==
  \E i \in 1..Len(arts) : ViolatesConstraint(BulkParams(arts[i]))

\* The last entry of the batch with id aid.
LastEntry(arts, aid) ==
  arts[CHOOSE i \in 1..Len(arts) :
         /\ arts[i].id = aid
         /\ \A j \in (i + 1)..Len(arts) : arts[j].id # aid]

DescriptiveMatch(row, art) ==
  /\ row.title = art.title /\ row.keyword = art.keyword
  /\ row.intent = art.intent /\ row.funnel = art.funnel
  /\ row.description = art.description /\ row.priority = art.priority
  /\ row.word_count = art.wordCount /\ row.category = art.category
  /\ row.week = art.week

\* C2: BulkUpsert is all-or-nothing: if the write of any record of the batch
\* fails, the store holds exactly the records it held before the request and
\* an error is answered; otherwise every record of the batch is applied and
\* count = number of input records is answered.
C2_BulkAllOrNothing ==
  [][\A body \in BulkBodies :
       (resp'.op = "bulk" /\ BulkStep(body) /\ pool /\ dbReady
          /\ "articles" \in DOMAIN body)
       => IF BatchFails(body.articles)
          THEN rows' = rows /\ resp'.op = "bulk" /\ resp'.code = 500
          ELSE /\ resp' = Reply("bulk", 200,
                               [success |-> TRUE, count |-> Len(body.articles)])
               /\ \A i \in 1..Len(body.articles) :
                    /\ HasAid(rows', body.articles[i].id)
                    /\ DescriptiveMatch(RowOfAid(rows', body.articles[i].id),
                                        LastEntry(body.articles, body.articles[i].id))
               /\ \A i \in 1..Len(rows) :
                    (\A k \in 1..Len(body.articles) :
                        body.articles[k].id # rows[i].article_id)
                    => \E j \in 1..Len(rows') : rows'[j] = rows[i]]_vars

\* C2 witness: the first write request was a batch that failed at its second
\* write (two sequence values were drawn) and was rolled back: the store
\* holds the one record it held before.
C2_Witness ==
  /\ resp.op = "bulk" /\ resp.code = 500
  /\ clock = 2 /\ nextId = 4
  /\ Len(rows) = 1 /\ rows[1].updated_at = 0

\* C3: while the store is not ready, List answers 200 with an empty array
\* and Stats answers all-zero counts, and Get, Upsert, Patch, Delete and
\* BulkUpsert answer 503 and leave the stored records unchanged.
C3_NotReadyDegrades ==
  [][(~(pool /\ dbReady))
     => /\ (\E fail \in BOOLEAN : ListStep(fail))
             => resp' = Reply("list", 200, << >>) /\ rows' = rows
        /\ (\E fail \in BOOLEAN : StatsStep(fail))
             => /\ resp'.op = "stats" /\ resp'.code = 200
                /\ \A k \in DOMAIN resp'.body : resp'.body[k] = 0
                /\ rows' = rows
        /\ ( \/ \E id \in Ids : GetStep(id)
             \/ \E body \in UpsertBodies : UpsertStep(body)
             \/ \E id \in Ids, body \in PatchBodies : PatchStep(id, body)
             \/ \E id \in Ids : DeleteStep(id)
             \/ \E body \in BulkBodies : BulkStep(body) )
             => resp'.code = 503 /\ rows' = rows /\ nextId' = nextId]_vars

\* C3 witness: a write was refused with 503 after init failed, the table
\* holding a record.
C3_Witness ==
  /\ initPc = "failed" /\ ~dbReady
  /\ resp.op \in {"upsert", "patch", "delete", "bulk"} /\ resp.code = 503
  /\ Len(rows) > 0

\* Fields Patch never writes.
PatchFrame ==
  {"id", "article_id", "title", "keyword", "intent", "funnel", "description",
   "priority", "word_count", "category", "created_at"}

\* C6: Patch on an existing record changes only the supplied ones of
\* status, notes, week, plus updated_at; every other field of the record and
\* every other record are unchanged. Patch on an internalId that does not
\* exist answers 404 and changes no record.
C6_PatchFrame ==
  [][\A id \in Ids, body \in PatchBodies :
       (resp'.op = "patch" /\ PatchStep(id, body) /\ pool /\ dbReady)
       => IF HasId(rows, id)
          THEN /\ resp'.op = "patch" /\ resp'.code = 200
               /\ Len(rows') = Len(rows)
               /\ \A i \in 1..Len(rows) :
                    IF rows[i].id # id THEN rows'[i] = rows[i]
                    ELSE /\ \A f \in PatchFrame : rows'[i][f] = rows[i][f]
                         /\ rows'[i].status =
                              IF body.status # NULL THEN body.status ELSE rows[i].status
                         /\ rows'[i].notes =
                              IF body.notes # NULL THEN body.notes ELSE rows[i].notes
                         /\ rows'[i].week =
                              IF body.week # NullInt THEN body.week ELSE rows[i].week
          ELSE rows' = rows /\ resp'.op = "patch" /\ resp'.code = 404]_vars

\* C6 witness: a Patch that supplied only status has been answered 200 for a
\* record that carries notes.
C6_Witness ==
  /\ resp.op = "patch" /\ resp.code = 200
  /\ resp.body.status = "in_progress" /\ resp.body.notes = "n1"
  /\ \E i \in 1..Len(rows) : rows[i] = resp.body

\* week ascending with NULL weeks last, then article_id ascending.
InListOrder(a, b) ==
  \/ a.week # NullInt /\ b.week # NullInt /\ a.week < b.week
  \/ a.week # NullInt /\ b.week = NullInt
  \/ a.week = b.week /\ AidRank(a.article_id) <= AidRank(b.article_id)

\* C9: List returns all stored records sorted by week ascending and, within
\* equal week, by articleId ascending; on an empty store it returns an empty
\* sequence with status 200.
C9_ListOrdered ==
  [][(ListStep(FALSE) /\ pool /\ dbReady)
     => /\ resp'.op = "list" /\ resp'.code = 200
        /\ Len(resp'.body) = Len(rows)
        /\ \A i \in 1..Len(rows) : \E j \in 1..Len(resp'.body) : resp'.body[j] = rows[i]
        /\ \A i, j \in 1..Len(resp'.body) :
             i < j => InListOrder(resp'.body[i], resp'.body[j])]_vars

\* C9 witness: List answered two records in an order other than the order
\* of their insertion.
C9_Witness ==
  /\ pool /\ dbReady
  /\ resp.op = "list" /\ resp.code = 200
  /\ Len(resp.body) = 2 /\ Len(rows) = 2
  /\ resp.body[1] = rows[2] /\ resp.body[2] = rows[1]

\* C10: no two stored records share an articleId; an Upsert or BulkUpsert
\* entry whose articleId exists merges into that record (same count, same
\* internalId, no error); an internalId never changes, and is never given to
\* another record, even after its record is deleted.
C10_IdentityStable ==
  /\ [](/\ \A i, j \in 1..Len(rows) :
             i # j => rows[i].article_id # rows[j].article_id /\ rows[i].id # rows[j].id
        /\ \A i \in 1..Len(rows) : rows[i].id < nextId)
  /\ [][/\ nextId' >= nextId
        /\ \A j \in 1..Len(rows') :
             \/ \E i \in 1..Len(rows) :
                  rows[i].id = rows'[j].id /\ rows[i].article_id = rows'[j].article_id
             \/ /\ rows'[j].id >= nextId
                /\ \A i \in 1..Len(rows) : rows[i].article_id # rows'[j].article_id
        /\ \A body \in UpsertBodies :
             ( /\ resp'.op = "upsert" /\ UpsertStep(body) /\ pool /\ dbReady
               /\ \E i \in 1..Len(rows) : rows[i].article_id = body.article_id
               /\ ~ViolatesConstraint(UpsertParams(body)) )
             => Len(rows') = Len(rows) /\ resp'.code = 200
        /\ \A body \in BulkBodies :
             ( /\ resp'.op = "bulk" /\ BulkStep(body) /\ pool /\ dbReady
               /\ "articles" \in DOMAIN body
               /\ ~BatchFails(body.articles)
               /\ \A k \in 1..Len(body.articles) :
                    \E i \in 1..Len(rows) : rows[i].article_id = body.articles[k].id )
             => Len(rows') = Len(rows) /\ resp'.code = 200]_vars

\* C10 witness: an Upsert merged into an existing record while an
\* internalId issued earlier belongs to no record any more.
C10_Witness ==
  /\ resp.op = "upsert" /\ resp.code = 200
  /\ resp.body.created_at < resp.body.updated_at
  /\ \E i \in 1..Len(rows) : rows[i] = resp.body
  /\ \E id \in 1..(nextId - 1) :
       /\ id < resp.body.id
       /\ \A i \in 1..Len(rows) : rows[i].id # id

(* ------------------------------------------------------------------ *)
(* Properties of the planning view                                     *)
(* ------------------------------------------------------------------ *)

\* C4: if on load the fetched list is empty and the seed BulkUpsert fails,
\* then when loadArticles finishes allRecords and visibleRecords are the
\* static fallback dataset (when it is defined).
C4_FallbackAfterFailedSeed ==
  [][( /\ task["boot"].pc = "list2"
       /\ task["boot"].seeded = "failed"
       /\ Continue("boot")
       /\ staticDefined )
     => /\ articles' = JsArray(staticArticles)
        /\ filteredArticles' = staticArticles]_vars

\* C5: whenever visibleRecords is empty, the rendered content is the
\* 'no records match' placeholder, in each of the three view modes.
C5_EmptyRendersPlaceholder ==
  (Booted /\ filteredArticles = << >>) => content = Placeholder

\* Two characters are the same letter, whatever their case.
SameLetter(c, d) ==
  \/ c = d
  \/ {c, d} \in {{"W", "w"}, {"I", "i"}, {"G", "g"}, {"A", "a"}}

\* needle occurs in hay, case ignored.
CaselessSubstring(needle, hay) ==
  \E k \in 0..(Len(hay) - Len(needle)) :
    \A i \in 1..Len(needle) : SameLetter(hay[k + i], needle[i])

\* The five predicates of the filter algorithm on record a.
SatisfiesFilters(a, f) ==
  /\ \/ f.search = ""
     \/ \E fld \in {"title", "keyword", "description"} :
          /\ fld \in DOMAIN a /\ a[fld] # NULL
          /\ CaselessSubstring(Chars(f.search), Chars(a[fld]))
  /\ \A d \in {"category", "priority", "funnel", "status"} :
       f[d] = "" \/ (d \in DOMAIN a /\ a[d] = f[d])

\* A step in which the view renders after a filter input or after the
\* reload of a status change.
RendersAfterFilterOrReload ==
  \/ \E field \in DOMAIN FilterChoices :
       \E value \in FilterChoices[field] : applyFilters(field, value)
  \/ \E t \in Cycles :
       /\ task[t].pc \in {"list1", "list2"} /\ task'[t] = Idle
       /\ Continue(t)

\* C7: when the view renders after a filter-input change or after a
\* status-change reload, visibleRecords is the sub-sequence of allRecords
\* (order kept) of the records that satisfy all five predicates.
C7_VisibleIsFiltered ==
  [][(RendersAfterFilterOrReload /\ articles'.array)
     => /\ filteredArticles' =
             SelectSeq(articles'.items, LAMBDA a : SatisfiesFilters(a, filters'))
        /\ content' = Render(viewMode', filteredArticles')]_vars

\* C7 witness: a record set in_progress by a status change is the one record
\* of two that the search "wI" keeps, by its title "Wi".
C7_Witness ==
  /\ Booted /\ filters.search = "wI"
  /\ articles.array /\ Len(articles.items) = 2
  /\ Len(filteredArticles) = 1
  /\ filteredArticles[1].title = "Wi"
  /\ Field(filteredArticles[1], "status") = "in_progress"

\* C8 as claimed (for a session whose fallback dataset is defined): over
\* the session the seed request is issued iff the first load's list fetch
\* returned an empty list, and then exactly once; no reload issues it.
C8_SeedOnlyOnFirstLoad ==
  staticDefined
  => /\ seeds <= 1
     /\ seeds = 1 => firstList = "empty"
     /\ firstList = "empty" => seeds = 1

\* Task t issues the seed request in this step.
IssuesSeed(t) == task[t].pc # "seed" /\ task'[t].pc = "seed" /\ task'[t].net = Sent

\* The list fetch of loadArticles in task t has returned an empty list.
ListReturnedEmpty(t) ==
  /\ task[t].pc = "list1" /\ task[t].net.st = "resp"
  /\ task[t].net.code = 200 /\ Len(task[t].net.body) = 0

\* C8 amended: every load, the first one and each reload after a status
\* change, issues the seed request iff its list fetch returned an empty list
\* and the fallback dataset is defined, and then once.
C8_SeedPerEmptyLoad ==
  [][/\ \A t \in Tasks :
          /\ IssuesSeed(t) => ListReturnedEmpty(t) /\ staticDefined
          /\ (ListReturnedEmpty(t) /\ staticDefined /\ Continue(t)) => IssuesSeed(t)
     /\ seeds' = seeds + Cardinality({t \in Tasks : IssuesSeed(t)})]_vars

\* C8 witness: a reload issues the seed request although the first load's
\* list was not empty.
C8_Witness ==
  /\ firstList = "nonempty" /\ seeds = 1
  /\ \E t \in Cycles : task[t].pc = "seed" /\ task[t].net = Sent

\* The list GET /api/articles would answer now, as the view reads it.
StoreList == ParseList(Arrived(ListArticles(FALSE).resp))

\* The status-change cycle t ends in this step, no other one being in
\* flight.
LastCycleCompletes(t) ==
  /\ task[t].pc # "idle" /\ task'[t] = Idle
  /\ \A u \in Cycles \ {t} : task[u] = Idle

\* A status-change cycle requests its list reload only once the answer to
\* its PATCH has arrived.
ReloadAfterPatchAnswer ==
  \A t \in Cycles :
    (task[t].pc # "list1" /\ task'[t].pc = "list1")
    => task[t].pc = "patch" /\ task[t].net.st = "resp" /\ task'[t].net = Sent

\* allRecords changes only to the list a fetch of the view has returned.
AssignsFetchedSnapshot ==
  articles' # articles
  => \E t \in Tasks :
       /\ task[t].pc \in {"list1", "list2"} /\ task[t].net.st = "resp"
       /\ articles' = ParseList(task[t].net)

\* C11: the view never diverges from the store through its own edits: a
\* status change requests its list reload only after the answer to its PATCH
\* has arrived, allRecords is only ever assigned a fetched snapshot, and when
\* the last status-change cycle in flight completes (two cycles may overlap
\* and their answers arrive in any order) allRecords equals the list the
\* store would answer now, no other client writing.
C11_ViewFollowsStore ==
  [][/\ ReloadAfterPatchAnswer
     /\ AssignsFetchedSnapshot
     /\ \A t \in Cycles :
          LastCycleCompletes(t) => articles' = StoreList']_vars

====
